---------------------------- MODULE Spec2Model ----------------------------
(***************************************************************************)
(* A model of src/core/InteractiveEmbed.ts: the two reaction-driven        *)
(* components InteractiveEmbed and PaginatedEmbed, one instance at a time, *)
(* together with the message they post, the requests they issue to the     *)
(* chat platform (post, react, remove a user's reaction, remove all        *)
(* reactions, edit) and the reaction collector they arm.                   *)
(*                                                                         *)
(* A request is issued synchronously by the code and completes later, with *)
(* success or with a transport failure; an `await` suspends the function   *)
(* that issued it until then, and everything between two awaits runs as    *)
(* one step of the single-threaded event loop.  Requests to one route      *)
(* (the reactions of the bot, the edits of the message) complete in the    *)
(* order they were issued.                                                 *)
(***************************************************************************)
EXTENDS Integers, Sequences, FiniteSets, TLC

(***************************************************************************)
(* Bounds of the model.                                                    *)
(***************************************************************************)
\* longest emoji list given to an InteractiveEmbed
MaxEmojis == 2
\* longest embed array given to a PaginatedEmbed
MaxEmbeds == 3
\* reactions users add to the message in one run
MaxReactions == 3
\* the clock advances by at most this many milliseconds in one step
TickMs == 60000

(***************************************************************************)
(* Emojis and users.  The arrows stand for the literals of lines 85-86 and *)
(* 92-94; the other names are emojis a caller may configure or a user may  *)
(* react with.                                                             *)
(***************************************************************************)
LeftArrow == "left"
RightArrow == "right"
ConfigEmojis == {"check", "cross"}
ReactEmojis == {LeftArrow, RightArrow, "check"}

\* the user passed to send, another user of the channel, and the bot itself
Authorized == "user"
Other == "other"
Bot == "bot"
Users == {Authorized, Other}

\* the emojis user u reacts with on the message of a component of kind k: the
\* authorized user with one that InteractiveEmbed may have configured and one
\* it has not, and with both arrows and another emoji on a PaginatedEmbed;
\* the other user with the first of these
EmojisOf(u, k) ==
    IF u = Authorized
    THEN (IF k = "IE" THEN {"check", LeftArrow} ELSE ReactEmojis)
    ELSE (IF k = "IE" THEN {"check"} ELSE {LeftArrow})

(***************************************************************************)
(* Embeds.  An embed is the record of its fields; a footer is present or   *)
(* not and, when present, holds a text ("" for an undefined text).         *)
(***************************************************************************)
NoFooter == [present |-> FALSE, text |-> ""]
InputFooters == {NoFooter, [present |-> TRUE, text |-> ""], [present |-> TRUE, text |-> "foo"]}

\* what reading embeds[i] gives for an i outside the array
UndefinedEmbed == [title |-> "undefined", footer |-> NoFooter]
\* the content of a message that was not posted
NoMessage == [title |-> "", footer |-> NoFooter]

\* the optional parameter `killed`: undefined, or the fields to change
KilledOptions ==
    { [defined |-> FALSE, data |-> <<>>],
      [defined |-> TRUE, data |-> [title |-> "closed"]] }

\* { ...embed.toJSON(), ...killed }: the fields of the patch override
Merge(e, k) ==
    [f \in DOMAIN e \cup DOMAIN k |-> IF f \in DOMAIN k THEN k[f] ELSE e[f]]

\* if (this.killed): an options object is truthy, undefined is not
KilledAlways(k) == TRUE

HasKilled(k) == k.defined

(***************************************************************************)
(* PaginatedEmbed's constructor, lines 64-76.                              *)
(***************************************************************************)
\* `Page ${i + 1}/${embeds.length}`, i the 0-based position
PageLabel(i, n) == "Page " \o ToString(i + 1) \o "/" \o ToString(n)

\* the footer of one embed after the callback of embeds.map ran on it
FooterWithPageOffByOne(f, i, n) ==
    IF f.present
    THEN [f EXCEPT !.text = f.text \o " * " \o PageLabel(i, n)]
    ELSE [present |-> TRUE, text |-> PageLabel(i - 1, n)]

FooterWithPage(f, i, n) ==
    IF f.present
    THEN [f EXCEPT !.text = f.text \o " * " \o PageLabel(i, n)]
    ELSE [present |-> TRUE, text |-> PageLabel(i, n)]

\* embeds.map over positions i..Len(es), on the objects themselves: h maps
\* each embed object to its fields, es[i] is the object at position i
RECURSIVE AnnotateFrom(_, _, _)
AnnotateFrom(h, es, i) ==
    IF i > Len(es) THEN h
    ELSE AnnotateFrom(
            [h EXCEPT ![es[i]].footer = FooterWithPage(@, i - 1, Len(es))],
            es, i + 1)

\* a string's ending
EndsWith(s, suffix) ==
    /\ Len(s) >= Len(suffix)
    /\ SubSeq(s, Len(s) - Len(suffix) + 1, Len(s)) = suffix

(***************************************************************************)
(* The collector's options, line 34 and line 89.                           *)
(***************************************************************************)
idle == 60000
time == 180000

CollectorOptionsLongTime == [idle |-> idle, time |-> time + idle]

CollectorOptions == [idle |-> idle, time |-> time]

\* the collector's filter: (_reaction, u) => u.id === user.id
FilterAnyUser(u) == TRUE

Filter(u) == u = Authorized

(***************************************************************************)
(* The page index after a collected reaction, lines 87-95.                 *)
(***************************************************************************)
NextIndexNoWrap(i, last, emojiName) ==
    IF emojiName = LeftArrow THEN (IF i - 1 < 0 THEN last ELSE i - 1)
    ELSE IF emojiName = RightArrow THEN i + 1
    ELSE i

NextIndexLeftOffByOne(i, last, emojiName) ==
    IF emojiName = LeftArrow THEN (IF i - 1 <= 0 THEN last ELSE i - 1)
    ELSE IF emojiName = RightArrow THEN (IF i + 1 > last THEN 0 ELSE i + 1)
    ELSE i

NextIndexOtherIsRight(i, last, emojiName) ==
    IF emojiName = LeftArrow THEN (IF i - 1 < 0 THEN last ELSE i - 1)
    ELSE (IF i + 1 > last THEN 0 ELSE i + 1)

NextIndexRightWrapsLate(i, last, emojiName) ==
    IF emojiName = LeftArrow THEN (IF i - 1 < 0 THEN last ELSE i - 1)
    ELSE IF emojiName = RightArrow THEN (IF i + 1 >= last THEN 0 ELSE i + 1)
    ELSE i

NextIndex(i, last, emojiName) ==
    IF emojiName = LeftArrow THEN (IF i - 1 < 0 THEN last ELSE i - 1)
    ELSE IF emojiName = RightArrow THEN (IF i + 1 > last THEN 0 ELSE i + 1)
    ELSE i

\* this.emojis.includes(name)
Includes(es, name) == \E i \in 1..Len(es) : es[i] = name

\* whether the collect handler of InteractiveEmbed emits, line 37
ShouldEmitAlways(es, name) == TRUE

ShouldEmit(es, name) == Includes(es, name)

(***************************************************************************)
(* The state.                                                              *)
(***************************************************************************)
VARIABLES
    kind,          \* "IE": an InteractiveEmbed, "PE": a PaginatedEmbed
    emojis,        \* this.emojis (InteractiveEmbed)
    embedsIn,      \* the constructor's array argument: embed objects by position
    heap,          \* the fields of every embed object of the caller
    killed,        \* this.killed
    instance,      \* "new": not constructed, "ok", "failed": the constructor threw
    embed,         \* this.embed (InteractiveEmbed)
    embeds,        \* this.embeds (PaginatedEmbed): embed objects by position
    sendPc,        \* where send is: idle, posting, reactLeft, reactRight, returned, rejected
    message,       \* whether channel.send resolved with a message
    displayed,     \* the embed the message shows
    reactions,     \* the reactions on the message: <<user, emoji>>
    reactQueue,    \* message.react requests in flight, oldest first
    collector,     \* this.collector: unset, active, ended
    index,         \* the closure variable `index` of PaginatedEmbed.send
    handlers,      \* the runs of the collect handler, in the order of the events
    edits,         \* message.edit requests in flight, oldest first
    removeAlls,    \* message.reactions.removeAll requests in flight
    events,        \* what this.emit was called with, in order
    now,           \* milliseconds since the collector was created
    idleDeadline,  \* when the collector's idle timer fires
    timeDeadline,  \* when the collector's time timer fires
    lastQualAt,    \* when the last reaction passed the filter (0: none yet)
    endRuns,       \* how often the end handler ran
    shownAtEnd,    \* the embed the instance was showing when the end handler ran
    nReacts        \* reactions users added so far

vars == <<kind, emojis, embedsIn, heap, killed, instance, embed, embeds, sendPc,
          message, displayed, reactions, reactQueue, collector, index, handlers,
          edits, removeAlls, events, now, idleDeadline, timeDeadline,
          lastQualAt, endRuns, shownAtEnd, nReacts>>

Refs == 1..MaxEmbeds

SeqsUpTo(S, n) == UNION {[1..k -> S] : k \in 0..n}

Min2(a, b) == IF a <= b THEN a ELSE b

\* an embed of the caller before any constructor touched it
InputEmbed(f) == [title |-> "embed", footer |-> f]

\* this.embeds[i], i 0-based; undefined outside the array
EmbedAt(i) ==
    IF i \in 0..(Len(embeds) - 1) THEN heap[embeds[i + 1]] ELSE UndefinedEmbed

\* const max = this.embeds.length - 1, line 88
max == Len(embeds) - 1

\* the embed the instance holds as the one on show
CurrentEmbed == IF kind = "IE" THEN embed ELSE EmbedAt(index)

\* everything of the running instance that the constructor leaves alone
InitRun ==
    /\ instance = "new"
    /\ embed = NoMessage
    /\ embeds = <<>>
    /\ sendPc = "idle"
    /\ message = FALSE
    /\ displayed = NoMessage
    /\ reactions = {}
    /\ reactQueue = <<>>
    /\ collector = "unset"
    /\ index = 0
    /\ handlers = <<>>
    /\ edits = <<>>
    /\ removeAlls = 0
    /\ events = <<>>
    /\ now = 0
    /\ idleDeadline = 0
    /\ timeDeadline = 0
    /\ lastQualAt = 0
    /\ endRuns = 0
    /\ shownAtEnd = NoMessage
    /\ nReacts = 0

\* the arguments of the constructors: an emoji list of up to maxEmojis
\* emojis and an embed, or an array of up to maxEmbeds distinct embed objects
\* without footers
InitWith(maxEmojis, maxEmbeds) ==
    /\ kind \in {"IE", "PE"}
    /\ killed \in KilledOptions
    /\ heap = [r \in Refs |-> InputEmbed(NoFooter)]
    /\ IF kind = "IE"
       THEN /\ emojis \in SeqsUpTo(ConfigEmojis, maxEmojis)
            /\ embedsIn = <<1>>
       ELSE /\ emojis = <<>>
            /\ embedsIn \in {[i \in 1..n |-> i] : n \in 0..maxEmbeds}
    /\ InitRun

Init == InitWith(MaxEmojis, MaxEmbeds)

\* the arguments under which the collector's timers are followed: the timers
\* read neither the emoji list nor the embeds, and one emoji or one embed is
\* enough to have every kind of reaction collected
InitTimers == InitWith(1, 1)

\* the embed objects of an array, numbered in the order of their first use
Canonical(es) ==
    \A i \in 1..Len(es) :
        \/ es[i] = 1
        \/ \E j \in 1..(i - 1) : es[j] >= es[i] - 1

\* the arguments of PaginatedEmbed's constructor: any array of embed objects,
\* one object possibly at several positions, with and without footers
InitCtor ==
    /\ kind = "PE"
    /\ killed \in KilledOptions
    /\ emojis = <<>>
    /\ embedsIn \in {es \in SeqsUpTo(Refs, MaxEmbeds) : Canonical(es)}
    /\ heap \in [Refs -> {InputEmbed(f) : f \in InputFooters}]
    /\ \A r \in Refs :
          (\A i \in 1..Len(embedsIn) : embedsIn[i] # r) => heap[r].footer = NoFooter
    /\ InitRun

(***************************************************************************)
(* The constructors, lines 19-24 and 64-76.                                *)
(***************************************************************************)
Construct ==
    /\ instance = "new"
    /\ IF kind = "IE"
       THEN /\ instance' = "ok"
            /\ embed' = heap[embedsIn[1]]
            /\ UNCHANGED <<heap, embeds>>
       ELSE IF Len(embedsIn) = 0
       THEN /\ instance' = "failed"
            /\ UNCHANGED <<heap, embed, embeds>>
       ELSE /\ instance' = "ok"
            /\ heap' = AnnotateFrom(heap, embedsIn, 1)
            /\ embeds' = embedsIn
            /\ UNCHANGED embed
    /\ UNCHANGED <<kind, emojis, embedsIn, killed, sendPc, message, displayed,
                   reactions, reactQueue, collector, index, handlers, edits,
                   removeAlls, events, now, idleDeadline, timeDeadline,
                   lastQualAt, endRuns, shownAtEnd, nReacts>>

SpecCtor == InitCtor /\ [][Construct]_vars

(***************************************************************************)
(* send, lines 31-34 and 83-89.                                            *)
(***************************************************************************)
\* send is called: channel.send(...) is issued and awaited
Send ==
    /\ instance = "ok"
    /\ sendPc = "idle"
    /\ sendPc' = "posting"
    /\ UNCHANGED <<kind, emojis, embedsIn, heap, killed, instance, embed, embeds,
                   message, displayed, reactions, reactQueue, collector, index,
                   handlers, edits, removeAlls, events, now, idleDeadline,
                   timeDeadline, lastQualAt, endRuns, shownAtEnd, nReacts>>

\* a send that goes on without creating the collector
ArmNever == UNCHANGED <<collector, idleDeadline, timeDeadline>>

\* message.createReactionCollector(filter, { idle: 60000, time: 180000 }):
\* the collector is active and both of its timers are set
Arm ==
    /\ collector' = "active"
    /\ idleDeadline' = now + CollectorOptions.idle
    /\ timeDeadline' = now + CollectorOptions.time

\* a PaginatedEmbed.send that creates the collector as soon as the message is
\* posted, the arrows still to be attached
PostDoneArmsFirst(ok) ==
    /\ sendPc = "posting"
    /\ IF ~ok
       THEN /\ sendPc' = "rejected"
            /\ UNCHANGED <<message, displayed, reactQueue, collector,
                           idleDeadline, timeDeadline>>
       ELSE /\ message' = TRUE
            /\ displayed' = CurrentEmbed
            /\ Arm
            /\ IF kind = "IE"
               THEN reactQueue' = emojis /\ sendPc' = "returned"
               ELSE reactQueue' = <<LeftArrow>> /\ sendPc' = "reactLeft"
    /\ UNCHANGED <<kind, emojis, embedsIn, heap, killed, instance, embed, embeds,
                   reactions, index, handlers, edits, removeAlls, events, now,
                   lastQualAt, endRuns, shownAtEnd, nReacts>>

\* a send that creates its collector although channel.send was rejected
PostDoneArmsOnFailure(ok) ==
    /\ sendPc = "posting"
    /\ IF ~ok
       THEN /\ sendPc' = "rejected"
            /\ Arm
            /\ UNCHANGED <<message, displayed, reactQueue>>
       ELSE /\ message' = TRUE
            /\ displayed' = CurrentEmbed
            /\ IF kind = "IE"
               THEN /\ reactQueue' = emojis
                    /\ Arm
                    /\ sendPc' = "returned"
               ELSE /\ reactQueue' = <<LeftArrow>>
                    /\ sendPc' = "reactLeft"
                    /\ UNCHANGED <<collector, idleDeadline, timeDeadline>>
    /\ UNCHANGED <<kind, emojis, embedsIn, heap, killed, instance, embed, embeds,
                   reactions, index, handlers, edits, removeAlls, events, now,
                   lastQualAt, endRuns, shownAtEnd, nReacts>>

\* channel.send settles.  InteractiveEmbed goes on, in one go, to issue one
\* react per emoji (none awaited by send), create the collector, register the
\* handlers and return; PaginatedEmbed issues react(left) and awaits it
PostDone(ok) ==
    /\ sendPc = "posting"
    /\ IF ~ok
       THEN /\ sendPc' = "rejected"
            /\ UNCHANGED <<message, displayed, reactQueue, collector,
                           idleDeadline, timeDeadline>>
       ELSE /\ message' = TRUE
            /\ displayed' = CurrentEmbed
            /\ IF kind = "IE"
               THEN /\ reactQueue' = emojis
                    /\ Arm
                    /\ sendPc' = "returned"
               ELSE /\ reactQueue' = <<LeftArrow>>
                    /\ sendPc' = "reactLeft"
                    /\ UNCHANGED <<collector, idleDeadline, timeDeadline>>
    /\ UNCHANGED <<kind, emojis, embedsIn, heap, killed, instance, embed, embeds,
                   reactions, index, handlers, edits, removeAlls, events, now,
                   lastQualAt, endRuns, shownAtEnd, nReacts>>

\* the oldest message.react settles.  PaginatedEmbed.send awaits it: it goes
\* on to react(right), then to the collector, and rejects when a react fails
ReactDone(ok) ==
    /\ reactQueue # <<>>
    /\ reactions' = IF ok THEN reactions \cup {<<Bot, Head(reactQueue)>>}
                    ELSE reactions
    /\ IF kind = "IE"
       THEN /\ reactQueue' = Tail(reactQueue)
            /\ UNCHANGED <<sendPc, collector, idleDeadline, timeDeadline, index>>
       ELSE IF ~ok
       THEN /\ reactQueue' = <<>>
            /\ sendPc' = "rejected"
            /\ UNCHANGED <<collector, idleDeadline, timeDeadline, index>>
       ELSE IF sendPc = "reactLeft"
       THEN /\ reactQueue' = <<RightArrow>>
            /\ sendPc' = "reactRight"
            /\ UNCHANGED <<collector, idleDeadline, timeDeadline, index>>
       ELSE /\ reactQueue' = <<>>
            /\ index' = 0
            /\ Arm
            /\ sendPc' = "returned"
    /\ UNCHANGED <<kind, emojis, embedsIn, heap, killed, instance, embed, embeds,
                   message, displayed, handlers, edits, removeAlls, events, now,
                   lastQualAt, endRuns, shownAtEnd, nReacts>>

(***************************************************************************)
(* The collector: a user adds a reaction, lines 34-36 and 89-91.           *)
(***************************************************************************)
\* user u adds emoji e to the message.  An active collector whose filter
\* passes u emits collect: the handler runs up to its await of
\* reaction.users.remove, and the collector restarts its idle timer
React(u, e) ==
    /\ message
    /\ nReacts < MaxReactions
    /\ <<u, e>> \notin reactions
    /\ reactions' = reactions \cup {<<u, e>>}
    /\ nReacts' = nReacts + 1
    /\ IF collector = "active" /\ Filter(u)
       THEN /\ handlers' = Append(handlers, [user |-> u, emoji |-> e, pc |-> "remove"])
            /\ idleDeadline' = now + CollectorOptions.idle
            /\ lastQualAt' = now
       ELSE UNCHANGED <<handlers, idleDeadline, lastQualAt>>
    /\ UNCHANGED <<kind, emojis, embedsIn, heap, killed, instance, embed, embeds,
                   sendPc, message, displayed, reactQueue, collector, index,
                   edits, removeAlls, events, now, timeDeadline, endRuns,
                   shownAtEnd>>

(***************************************************************************)
(* The collect handlers after their await, lines 36-38 and 91-96.          *)
(***************************************************************************)
\* a handler run that is over, with its outcome: "done", or "failed" when a
\* request it awaited was rejected; its reaction and user are gone with it
Over(outcome) == [user |-> "", emoji |-> "", pc |-> outcome]

\* a handler that takes the bot's reaction off instead
RemoveTargetBot(h) == Bot

\* whose reaction the handler removes: InteractiveEmbed's handler names the
\* user of the event, PaginatedEmbed's the user given to send
RemoveTarget(h) == IF kind = "IE" THEN handlers[h].user ELSE Authorized

\* reaction.users.remove settles for handler run h.  On a failure the run
\* ends there; otherwise InteractiveEmbed emits when the emoji is one of its
\* own, and PaginatedEmbed moves the index and issues the edit it awaits
RemoveDone(h, ok) ==
    /\ h \in 1..Len(handlers)
    /\ handlers[h].pc = "remove"
    /\ IF ~ok
       THEN /\ handlers' = [handlers EXCEPT ![h] = Over("failed")]
            /\ UNCHANGED <<reactions, events, index, edits>>
       ELSE /\ reactions' = reactions \ {<<RemoveTarget(h), handlers[h].emoji>>}
            /\ IF kind = "IE"
               THEN /\ events' =
                         IF ShouldEmit(emojis, handlers[h].emoji)
                         THEN Append(events, [name |-> handlers[h].emoji,
                                              reaction |-> h,
                                              user |-> handlers[h].user])
                         ELSE events
                    /\ handlers' = [handlers EXCEPT ![h] = Over("done")]
                    /\ UNCHANGED <<index, edits>>
               ELSE /\ index' = NextIndex(index, max, handlers[h].emoji)
                    /\ edits' = Append(edits, [content |-> EmbedAt(index'), by |-> h])
                    /\ handlers' = [handlers EXCEPT ![h].pc = "edit"]
                    /\ UNCHANGED events
    /\ UNCHANGED <<kind, emojis, embedsIn, heap, killed, instance, embed, embeds,
                   sendPc, message, displayed, reactQueue, collector, removeAlls,
                   now, idleDeadline, timeDeadline, lastQualAt, endRuns,
                   shownAtEnd, nReacts>>

\* the oldest message.edit settles; the handler run awaiting it ends
EditDone(ok) ==
    /\ edits # <<>>
    /\ displayed' = IF ok THEN Head(edits).content ELSE displayed
    /\ edits' = Tail(edits)
    /\ handlers' = IF Head(edits).by = 0 THEN handlers
                   ELSE [handlers EXCEPT ![Head(edits).by] =
                                            Over(IF ok THEN "done" ELSE "failed")]
    /\ UNCHANGED <<kind, emojis, embedsIn, heap, killed, instance, embed, embeds,
                   sendPc, message, reactions, reactQueue, collector, index,
                   removeAlls, events, now, idleDeadline, timeDeadline,
                   lastQualAt, endRuns, shownAtEnd, nReacts>>

\* a message.reactions.removeAll settles
RemoveAllDone(ok) ==
    /\ removeAlls > 0
    /\ removeAlls' = removeAlls - 1
    /\ reactions' = IF ok THEN {} ELSE reactions
    /\ UNCHANGED <<kind, emojis, embedsIn, heap, killed, instance, embed, embeds,
                   sendPc, message, displayed, reactQueue, collector, index,
                   handlers, edits, events, now, idleDeadline, timeDeadline,
                   lastQualAt, endRuns, shownAtEnd, nReacts>>

(***************************************************************************)
(* Time, the collector's two timers and the end handlers, lines 40-47 and  *)
(* 98-104.                                                                 *)
(***************************************************************************)
\* time passes while the collector is active, up to the next timer
Tick ==
    /\ collector = "active"
    /\ now < idleDeadline
    /\ now < timeDeadline
    /\ now' = Min2(now + TickMs, Min2(idleDeadline, timeDeadline))
    /\ UNCHANGED <<kind, emojis, embedsIn, heap, killed, instance, embed, embeds,
                   sendPc, message, displayed, reactions, reactQueue, collector,
                   index, handlers, edits, removeAlls, events, idleDeadline,
                   timeDeadline, lastQualAt, endRuns, shownAtEnd, nReacts>>

\* the collector ends and emits end: the handler issues removeAll and, given
\* this.killed, the edit to the merged embed; neither is awaited
End ==
    /\ collector' = "ended"
    /\ endRuns' = endRuns + 1
    /\ shownAtEnd' = CurrentEmbed
    /\ removeAlls' = removeAlls + 1
    /\ IF HasKilled(killed)
       THEN /\ embed' = IF kind = "IE" THEN Merge(embed, killed.data) ELSE embed
            /\ edits' = Append(edits, [content |-> Merge(CurrentEmbed, killed.data),
                                       by |-> 0])
       ELSE UNCHANGED <<embed, edits>>
    /\ UNCHANGED <<kind, emojis, embedsIn, heap, killed, instance, embeds, sendPc,
                   message, displayed, reactions, reactQueue, index, handlers,
                   events, now, idleDeadline, timeDeadline, lastQualAt, nReacts>>

\* the idle timer fires
IdleTimeout ==
    /\ collector = "active"
    /\ now >= idleDeadline
    /\ End

\* the time timer fires
TimeTimeout ==
    /\ collector = "active"
    /\ now >= timeDeadline
    /\ End

Next ==
    \/ Construct
    \/ Send
    \/ \E ok \in BOOLEAN : PostDone(ok)
    \/ \E ok \in BOOLEAN : ReactDone(ok)
    \/ \E u \in Users : \E e \in EmojisOf(u, kind) : React(u, e)
    \/ \E h \in 1..MaxReactions, ok \in BOOLEAN : RemoveDone(h, ok)
    \/ \E ok \in BOOLEAN : EditDone(ok)
    \/ \E ok \in BOOLEAN : RemoveAllDone(ok)
    \/ Tick
    \/ IdleTimeout
    \/ TimeTimeout

Spec == Init /\ [][Next]_vars

\* the event loop runs every timer that is due and time does not stop
FairSpec ==
    /\ InitTimers
    /\ [][Next]_vars
    /\ WF_vars(Tick)
    /\ WF_vars(IdleTimeout)
    /\ WF_vars(TimeTimeout)

(***************************************************************************)
(* What the claims read off the state.                                     *)
(***************************************************************************)
\* the event the handler of run h emits: named after the emoji, carrying the
\* reaction and the user
EventOf(h) ==
    [name |-> handlers[h].emoji, reaction |-> h, user |-> handlers[h].user]

\* the events after run h emitted as its emoji asks for: exactly one more
\* when the emoji is in the emoji list, none when it is not
EmittedAsConfigured(h) ==
    IF Includes(emojis, handlers[h].emoji)
    THEN events' = Append(events, EventOf(h))
    ELSE events' = events

\* the index a left or right arrow leads to from index i of n pages
ArrowTarget(i, n, e) ==
    IF e = LeftArrow THEN (IF i = 0 THEN n - 1 ELSE i - 1)
    ELSE (IF i = n - 1 THEN 0 ELSE i + 1)

\* the last position of the embed object that is at position i
LastPosition(es, i) ==
    CHOOSE j \in i..Len(es) :
        es[j] = es[i] /\ \A k \in (j + 1)..Len(es) : es[k] # es[i]

\* "Page p/n"
PageText(p, n) == "Page " \o ToString(p) \o "/" \o ToString(n)

(***************************************************************************)
(* InteractiveEmbed: the events of the collect handler.                    *)
(***************************************************************************)
\* C1 (as amended): InteractiveEmbed: when the handler of a reaction
\* collected from the authorized user goes on after a successful removal, it
\* emits exactly one event named after the reaction's emoji e, carrying the
\* reaction and the user, when e is in the emoji list, and none when it is
\* not; when the removal fails it emits nothing; and no other step emits.
C1_EmitAfterRemoval ==
    [][kind = "IE" =>
        /\ \A h \in 1..Len(handlers) :
              handlers[h].pc = "remove" =>
                 /\ handlers[h].user = Authorized
                 /\ handlers'[h].pc = "done" => EmittedAsConfigured(h)
                 /\ handlers'[h].pc = "failed" => events' = events
        /\ (\A h \in 1..Len(handlers) :
                ~(handlers[h].pc = "remove" /\ handlers'[h].pc = "done")) =>
              events' = events]_vars

\* C1 (as claimed): the handler of every reaction collected from the
\* authorized user emits, by the time it is through, exactly one event named
\* e when e is in the emoji list and none when it is not.
C1_EmitForEveryCollected ==
    [][kind = "IE" =>
        \A h \in 1..Len(handlers) :
            (handlers[h].pc = "remove" /\ handlers'[h].pc # "remove") =>
                EmittedAsConfigured(h)]_vars

\* C1: two collected reactions were handled with their removals done, one
\* with a configured emoji, which was emitted, and one with another emoji
C1_Witness ==
    /\ kind = "IE"
    /\ Len(handlers) = 2
    /\ handlers[1].pc = "done"
    /\ handlers[2].pc = "done"
    /\ events = <<[name |-> "check", reaction |-> 2, user |-> Authorized]>>

(***************************************************************************)
(* PaginatedEmbed: the page index.                                         *)
(***************************************************************************)
\* C2 (as amended): PaginatedEmbed: when the handler of a left or right arrow
\* goes on after a successful removal, it sets the index to n - 1 from 0 and
\* to i - 1 otherwise (left), to 0 from n - 1 and to i + 1 otherwise (right);
\* when the removal fails the index stays as it is.
C2_ArrowStepAfterRemoval ==
    [][kind = "PE" =>
        \A h \in 1..Len(handlers) :
            (handlers[h].pc = "remove" /\ handlers[h].emoji \in {LeftArrow, RightArrow}) =>
                /\ handlers'[h].pc = "edit" =>
                      index' = ArrowTarget(index, Len(embeds), handlers[h].emoji)
                /\ handlers'[h].pc = "failed" => index' = index]_vars

\* C2 (as claimed): every left or right arrow reaction, once its handler has
\* gone past the removal, has moved the index to the arrow's target.
C2_ArrowStepAlways ==
    [][kind = "PE" =>
        \A h \in 1..Len(handlers) :
            (/\ handlers[h].pc = "remove"
             /\ handlers[h].emoji \in {LeftArrow, RightArrow}
             /\ handlers'[h].pc # "remove") =>
                index' = ArrowTarget(index, Len(embeds), handlers[h].emoji)]_vars

\* C2: a left arrow from index 0 of three pages has wrapped to index 2
C2_Witness ==
    /\ kind = "PE"
    /\ Len(embeds) = 3
    /\ Len(handlers) = 1
    /\ handlers[1].pc = "done"
    /\ index = 2
    /\ displayed = heap[embeds[3]]

\* C3: PaginatedEmbed: in every reachable state the page index is within
\* 0..length-1.
C3_IndexInRange ==
    (kind = "PE" /\ instance = "ok") => index \in 0..(Len(embeds) - 1)

\* C3: three reactions were handled, one of them while the collector ended,
\* and the index stands at the last page
C3_Witness ==
    /\ kind = "PE"
    /\ collector = "ended"
    /\ Len(embeds) = 3
    /\ Len(handlers) = 3
    /\ \A h \in 1..3 : handlers[h].pc = "done"
    /\ index = 2

(***************************************************************************)
(* PaginatedEmbed: the constructor.                                        *)
(***************************************************************************)
\* C4 (as amended): with an empty array the constructor fails, no instance
\* exists and no embed was touched; with n >= 1 embeds it succeeds and the
\* footer of the embed at 0-based position i ends with "Page (p+1)/n", p the
\* last position of that embed object in the array: with "Page (i+1)/n" when
\* the object is at position i only, whether it had a footer or none.
C4_FooterOfLastPosition ==
    instance # "new" =>
        IF Len(embedsIn) = 0
        THEN /\ instance = "failed"
             /\ embeds = <<>>
             /\ \A r \in Refs : heap[r].footer = NoFooter
        ELSE /\ instance = "ok"
             /\ embeds = embedsIn
             /\ \A i \in 1..Len(embeds) :
                   /\ heap[embeds[i]].footer.present
                   /\ EndsWith(heap[embeds[i]].footer.text,
                               PageText(LastPosition(embeds, i), Len(embeds)))

\* C4 (as claimed): the footer of the embed at 0-based position i ends with
\* "Page (i+1)/n".
C4_FooterOfOwnPosition ==
    instance = "ok" =>
        \A i \in 1..Len(embeds) :
            EndsWith(heap[embeds[i]].footer.text, PageText(i, Len(embeds)))

\* C4: three distinct embeds, the first with a footer text, the second with
\* none, constructed
C4_Witness ==
    /\ instance = "ok"
    /\ embeds = <<1, 2, 3>>
    /\ heap[1].footer.text = "foo * Page 1/3"
    /\ heap[2].footer.text = "Page 2/3"

(***************************************************************************)
(* The end of the collector.                                               *)
(***************************************************************************)
\* the last-shown embed with the fields of the kill-patch overriding it
KilledEmbed == Merge(shownAtEnd, killed.data)

\* C5 (as claimed): for both components, once the collector has ended with
\* a kill-patch and the message displays the last-shown embed overridden by
\* the patch, no later edit replaces that merged embed.
C5_KilledEmbedStays ==
    [][(collector = "ended" /\ killed.defined /\ displayed = KilledEmbed) =>
            displayed' = KilledEmbed]_vars

\* C6: for both components, when the collector ends, by the idle or by the
\* time timeout, and no kill-patch was supplied, the end handler issues one
\* remove-all and no edit, and the message displays what it displayed before.
C6_EndWithoutKilled ==
    [][(collector = "active" /\ collector' = "ended" /\ ~killed.defined) =>
            /\ removeAlls' = removeAlls + 1
            /\ edits' = edits
            /\ displayed' = displayed
            /\ embed' = embed]_vars

\* C6: a collector without kill-patch that the time timeout ended while the
\* idle timer was still running, the remove-all issued, nothing to edit
C6_Witness ==
    /\ collector = "ended"
    /\ ~killed.defined
    /\ now = 180000
    /\ idleDeadline > 180000
    /\ removeAlls = 1
    /\ edits = <<>>
    /\ displayed = shownAtEnd

(***************************************************************************)
(* The collector's filter.                                                 *)
(***************************************************************************)
\* C7: for both components, a reaction added by a user other than the
\* authorized one is not collected: the step that adds it starts no handler,
\* emits no event, leaves the index, the edits, the displayed embed and the
\* idle timer as they are, and the reaction leaves the message only by a
\* remove-all.
C7_OthersNotCollected ==
    [][\A e \in ReactEmojis :
          /\ (<<Other, e>> \notin reactions /\ <<Other, e>> \in reactions') =>
                /\ handlers' = handlers
                /\ events' = events
                /\ index' = index
                /\ edits' = edits
                /\ displayed' = displayed
                /\ idleDeadline' = idleDeadline
                /\ lastQualAt' = lastQualAt
          /\ (<<Other, e>> \in reactions /\ <<Other, e>> \notin reactions') =>
                removeAlls' = removeAlls - 1]_vars

\* C7: an InteractiveEmbed whose collector is active (it is from the moment
\* the message exists) carries another user's reaction with a configured
\* emoji; nothing was collected and the idle timer, never restarted, is due
C7_Witness ==
    /\ kind = "IE"
    /\ collector = "active"
    /\ <<Other, "check">> \in reactions
    /\ Includes(emojis, "check")
    /\ handlers = <<>>
    /\ events = <<>>
    /\ now = 60000
    /\ idleDeadline = 60000

(***************************************************************************)
(* The collector's timers.                                                 *)
(***************************************************************************)
\* C8: for both components, an armed collector reaches the ended state; it
\* is active no longer than 60 s after the last qualifying reaction (or its
\* creation) and no longer than 180 s after its creation, whatever the
\* reactions; it ends at the earlier of the two, and the end handler runs
\* exactly once.
C8_CollectorEnds ==
    /\ [](collector = "active" =>
            /\ now <= lastQualAt + 60000
            /\ now <= 180000
            /\ endRuns = 0)
    /\ [](collector = "ended" =>
            /\ now = Min2(lastQualAt + 60000, 180000)
            /\ endRuns = 1)
    /\ (collector = "active" ~> collector = "ended")

\* C8: three qualifying reactions, the last at 180 s, kept the idle timer
\* from firing: it had 60 s to go when the collector ended at 180 s
C8_Witness ==
    /\ collector = "ended"
    /\ endRuns = 1
    /\ Len(handlers) = 3
    /\ lastQualAt = 180000
    /\ idleDeadline = 240000
    /\ now = 180000

C10_ReturnsAfterSetup ==
    [][kind = "IE" =>
        /\ (sendPc = "posting" /\ sendPc' = "returned") =>
              /\ collector' = "active"
              /\ \A i \in 1..Len(emojis) : <<Bot, emojis[i]>> \in reactions'
        /\ Len(handlers') > Len(handlers) => reactQueue = <<>>]_vars

(***************************************************************************)
(* The handler runs in flight.                                             *)
(***************************************************************************)
\* the collect handler runs between their start and their completion:
\* suspended on the removal or, for PaginatedEmbed, on the edit
Suspended == {h \in 1..Len(handlers) : handlers[h].pc \in {"remove", "edit"}}

\* C11 (as claimed): for both components, at most one handler run is between
\* its start and its completion at any time: no collect event and no end
\* event is processed while an earlier collect handler is suspended.
C11_OneHandlerAtATime ==
    [][/\ Cardinality(Suspended) <= 1
       /\ (Len(handlers') > Len(handlers) \/ endRuns' > endRuns) =>
             Suspended = {}]_vars

(***************************************************************************)
(* send: an initial reaction that cannot be attached.                      *)
(***************************************************************************)
\* the step in which the oldest message.react settles without attaching its
\* emoji for the bot
AttachFailed ==
    /\ reactQueue # <<>>
    /\ reactQueue' # reactQueue
    /\ <<Bot, Head(reactQueue)>> \notin reactions'

\* C12 (as amended): when attaching an initial reaction fails,
\* InteractiveEmbed misses only that reaction: the reactions after it stay
\* requested, the collector created by send stays as it is and send has
\* returned the instance.  PaginatedEmbed.send rejects instead: no further
\* arrow is requested (after a failed left arrow the right arrow is never
\* attached), the collector is never created and nothing is ever collected.
C12_FailedAttachPerComponent ==
    [][/\ AttachFailed =>
            IF kind = "IE"
            THEN /\ reactQueue' = Tail(reactQueue)
                 /\ collector # "unset"
                 /\ collector' = collector
                 /\ sendPc' = "returned"
            ELSE /\ reactQueue' = <<>>
                 /\ sendPc' = "rejected"
       /\ (kind = "PE" /\ sendPc = "rejected") =>
            /\ sendPc' = "rejected"
            /\ reactQueue' = <<>>
            /\ collector' = "unset"
            /\ handlers' = <<>>
            /\ (<<Bot, RightArrow>> \in reactions' => <<Bot, LeftArrow>> \in reactions)]_vars

\* C12 (as claimed): for both components, when attaching an initial reaction
\* fails, the reactions after it are still requested, send is not aborted
\* and the collector is, or is still going to be, created.
C12_FailedAttachOnlyMissing ==
    [][AttachFailed =>
          /\ sendPc' # "rejected"
          /\ IF kind = "IE"
             THEN reactQueue' = Tail(reactQueue) /\ collector' # "unset"
             ELSE Head(reactQueue) = LeftArrow => reactQueue' = <<RightArrow>>]_vars

\* C12: an InteractiveEmbed with two emojis whose first reaction failed to
\* attach: the second is attached, the collector is active, send returned
C12_Witness ==
    /\ kind = "IE"
    /\ emojis = <<"check", "cross">>
    /\ sendPc = "returned"
    /\ reactQueue = <<>>
    /\ endRuns = 0
    /\ collector = "active"
    /\ <<Bot, "check">> \notin reactions
    /\ <<Bot, "cross">> \in reactions

(***************************************************************************)
(* PaginatedEmbed: the order of send.                                      *)
(***************************************************************************)
\* both arrows are attached to the message
ArrowsAttached == {<<Bot, LeftArrow>>, <<Bot, RightArrow>>} \subseteq reactions

\* C13: PaginatedEmbed.send works in order: the message is posted with no
\* reaction on it, the left arrow is attached to the posted message before
\* the right arrow, the right arrow is attached before the collector exists,
\* and the collector is created with both arrows attached; no reaction is
\* collected and the index does not change before both arrows are attached.
C13_SetupInOrder ==
    [][kind = "PE" =>
        /\ (~message /\ message') =>
              /\ reactions' = {}
              /\ collector' = "unset"
        /\ (<<Bot, LeftArrow>> \notin reactions /\ <<Bot, LeftArrow>> \in reactions') =>
              /\ message
              /\ <<Bot, RightArrow>> \notin reactions'
              /\ collector' = "unset"
        /\ (<<Bot, RightArrow>> \notin reactions /\ <<Bot, RightArrow>> \in reactions') =>
              /\ <<Bot, LeftArrow>> \in reactions
              /\ collector = "unset"
        /\ (collector = "unset" /\ collector' # "unset") =>
              /\ ArrowsAttached'
              /\ handlers' = <<>>
              /\ index' = 0
        /\ Len(handlers') > Len(handlers) =>
              /\ collector = "active"
              /\ ArrowsAttached
        /\ index' # index => collector # "unset"
        /\ collector = "unset" => (handlers = <<>> /\ index = 0)]_vars

\* C13: with both arrows attached and the collector active, a right arrow
\* of the authorized user was collected and has moved the index to 1
C13_Witness ==
    /\ kind = "PE"
    /\ sendPc = "returned"
    /\ collector = "active"
    /\ ArrowsAttached
    /\ Len(handlers) = 1
    /\ handlers[1].pc = "edit"
    /\ index = 1

(***************************************************************************)
(* PaginatedEmbed: the pages shown when every request succeeds.            *)
(***************************************************************************)
\* a PaginatedEmbed over one to MaxEmbeds distinct embeds
InitPages ==
    /\ kind = "PE"
    /\ killed \in KilledOptions
    /\ heap = [r \in Refs |-> InputEmbed(NoFooter)]
    /\ emojis = <<>>
    /\ embedsIn \in {[i \in 1..n |-> i] : n \in 1..MaxEmbeds}
    /\ InitRun

\* the oldest message.edit resolves; the handler run awaiting it ends and
\* stays on record with its reaction
EditDonePages ==
    /\ edits # <<>>
    /\ displayed' = Head(edits).content
    /\ edits' = Tail(edits)
    /\ handlers' = IF Head(edits).by = 0 THEN handlers
                   ELSE [handlers EXCEPT ![Head(edits).by].pc = "done"]
    /\ UNCHANGED <<kind, emojis, embedsIn, heap, killed, instance, embed, embeds,
                   sendPc, message, reactions, reactQueue, collector, index,
                   removeAlls, events, now, idleDeadline, timeDeadline,
                   lastQualAt, endRuns, shownAtEnd, nReacts>>

\* the steps of a PaginatedEmbed on which only the authorized user reacts
\* and every request to the platform resolves
NextPages ==
    \/ Construct
    \/ Send
    \/ PostDone(TRUE)
    \/ ReactDone(TRUE)
    \/ \E e \in ReactEmojis : React(Authorized, e)
    \/ \E h \in 1..MaxReactions : RemoveDone(h, TRUE)
    \/ EditDonePages
    \/ RemoveAllDone(TRUE)
    \/ Tick
    \/ IdleTimeout
    \/ TimeTimeout

SpecPages == InitPages /\ [][NextPages]_vars

\* how many reactions with emoji e were collected
Clicks(e) == Cardinality({h \in 1..Len(handlers) : handlers[h].emoji = e})

\* right clicks minus left clicks
NetClicks == Clicks(RightArrow) - Clicks(LeftArrow)

\* C14: PaginatedEmbed, the collector active and every request resolving:
\* whenever no collect handler is under way, the index is (right clicks
\* minus left clicks) modulo n and the message displays the embed at that
\* index; and with 3 embeds and right clicks only, the display moves from a
\* page to the next one only, page 0 following page 2: 0, 1, 2, 0.
C14_PagesFollowClicks ==
    [][/\ (collector = "active" /\ Suspended = {}) =>
             /\ index = NetClicks % Len(embeds)
             /\ displayed = heap[embeds[index + 1]]
       /\ (/\ collector' = "active"
           /\ Len(embeds) = 3
           /\ \A h \in 1..Len(handlers) : handlers[h].emoji = RightArrow
           /\ displayed' # displayed) =>
             \E p \in 0..2 : /\ displayed = EmbedAt(p)
                             /\ displayed' = EmbedAt((p + 1) % 3)]_vars

\* C14: with 3 embeds, three right clicks were handled to the end while the
\* collector was active: the index is back at 0 and page 0 is displayed
C14_Witness ==
    /\ collector = "active"
    /\ Len(embeds) = 3
    /\ Len(handlers) = 3
    /\ \A h \in 1..3 : handlers[h] = [user |-> Authorized, emoji |-> RightArrow,
                                      pc |-> "done"]
    /\ index = 0
    /\ displayed = heap[embeds[1]]
    /\ edits = <<>>

(***************************************************************************)
(* The collect handlers: removal first.                                    *)
(***************************************************************************)
\* handler run h goes from its await of the removal to pc
PastRemoval(h, pc) == handlers[h].pc = "remove" /\ handlers'[h].pc = pc

\* C15: for both components, a collect handler acts only once its removal
\* has succeeded: an event is emitted, the index changes and a handler's
\* edit is issued only in the step in which a removal succeeds, the
\* authorized user's reaction then being off the message; a run whose
\* removal fails emits nothing and leaves the index, the edits and the
\* displayed embed as they are.
C15_EffectAfterRemoval ==
    [][/\ \A h \in 1..Len(handlers) :
             /\ PastRemoval(h, "failed") =>
                   /\ events' = events
                   /\ index' = index
                   /\ edits' = edits
                   /\ displayed' = displayed
             /\ (PastRemoval(h, "done") \/ PastRemoval(h, "edit")) =>
                   <<Authorized, handlers[h].emoji>> \notin reactions'
       /\ events' # events => \E h \in 1..Len(handlers) : PastRemoval(h, "done")
       /\ index' # index => \E h \in 1..Len(handlers) : PastRemoval(h, "edit")
       /\ Len(edits') > Len(edits) =>
             \/ endRuns' > endRuns
             \/ \E h \in 1..Len(handlers) :
                   /\ PastRemoval(h, "edit")
                   /\ edits'[Len(edits')].by = h]_vars

\* C15: an InteractiveEmbed collected two reactions: the removal of the
\* first failed, it is still on the message and nothing was emitted for it;
\* the second was removed and then emitted
C15_Witness ==
    /\ kind = "IE"
    /\ endRuns = 0
    /\ Len(handlers) = 2
    /\ handlers[1].pc = "failed"
    /\ handlers[2].pc = "done"
    /\ <<Authorized, LeftArrow>> \in reactions
    /\ <<Authorized, "check">> \notin reactions
    /\ nReacts = 2
    /\ events = <<[name |-> "check", reaction |-> 2, user |-> Authorized]>>

(***************************************************************************)
(* send: a post that fails.                                                *)
(***************************************************************************)
\* send was rejected by channel.send: there is no message
PostFailed == sendPc = "rejected" /\ ~message

\* C16: for both components, send leaves its await of channel.send either
\* with the message or rejected; rejected by the post, it has requested no
\* reaction and created no collector, and from then on no reaction is
\* attached, the collector stays unset, no handler runs, nothing is emitted,
\* edited or removed; and a collector exists only on a posted message.
C16_PostFailureStopsSend ==
    [][/\ (sendPc = "posting" /\ sendPc' # "posting") =>
             \/ message' /\ sendPc' # "rejected"
             \/ PostFailed'
       /\ PostFailed' =>
             /\ reactions' = {}
             /\ reactQueue' = <<>>
             /\ collector' = "unset"
             /\ handlers' = <<>>
             /\ events' = <<>>
             /\ edits' = <<>>
             /\ removeAlls' = 0
             /\ endRuns' = 0
       /\ PostFailed => PostFailed'
       /\ collector' # "unset" => message']_vars

\* C16: the send of an InteractiveEmbed with two emojis and a kill-patch was
\* rejected by the post: no message, no reaction, no collector
C16_Witness ==
    /\ kind = "IE"
    /\ emojis = <<"check", "cross">>
    /\ killed.defined
    /\ PostFailed
    /\ reactions = {}
    /\ collector = "unset"

(***************************************************************************)
(* After the end of the collector.                                         *)
(***************************************************************************)
\* C17 (as claimed): once the collector has ended, InteractiveEmbed emits
\* no event and PaginatedEmbed neither changes the index nor issues an edit
\* of the message, whatever handler run was suspended when it ended.
C17_NothingAfterEnd ==
    [][collector = "ended" =>
          /\ events' = events
          /\ index' = index
          /\ Len(edits') <= Len(edits)]_vars

=============================================================================
